---- MODULE Spec2Model ----
(***************************************************************************)
(* Model of the FastAPI backend: users (register, login), JWT bearer       *)
(* tokens (create_access_token, get_current_user), posts (add-post,        *)
(* get-posts with the Redis cache, delete-post).                           *)
(*                                                                         *)
(* Time is counted in ticks of half a second, so that the truncation of    *)
(* the JWT "exp" claim to whole seconds is visible.                        *)
(***************************************************************************)
EXTENDS Integers, FiniteSets, Sequences, TLC

\* ------------------------------------------------------------------ bounds
TicksPerSecond == 2     \* resolution of the clock
MaxPosts == 2           \* posts ever created
NumWorkers == 2         \* SpecConc: concurrently running request handlers

\* ------------------------------------------------------- program constants
MAX_SIZE == 1048576             \* utils.py: MAX_SIZE
SCHEMA_MAX_LENGTH == 1048576    \* PostCreateSchema: Field(max_length=...)
COLUMN_LENGTH == 255            \* PostModel.text: String(255)
TOKEN_MINUTES == 20             \* timedelta(minutes=20)
CACHE_EX_SECONDS == 5           \* redis set(..., ex=5)

TokenLifeTicks == TOKEN_MINUTES * 60 * TicksPerSecond
CacheTtlTicks == CACHE_EX_SECONDS * TicksPerSecond

\* ------------------------------------------------------------------ inputs
Emails == {"a@x.com", "b@x.com"}
Passwords == {"pw", "other"}
Salts == {"s1"}
Requests == {"r1"}      \* get-posts requests that can be in flight

\* A text is given by its number of 1-byte (ASCII) and of 2-byte (e.g.
\* Cyrillic) characters.
Text(ascii, wide) == [ascii |-> ascii, wide |-> wide]
CharLen(t) == t.ascii + t.wide
Utf8Len(t) == t.ascii + 2 * t.wide

Hello == Text(5, 0)
ExactAscii == Text(1048576, 0)
OneOverAscii == Text(1048577, 0)
TwoMillionAscii == Text(2000000, 0)
OneOverWide == Text(1048575, 1)
ExactWide == Text(0, 524288)
TextInputs == {Hello, ExactAscii, OneOverAscii, TwoMillionAscii, OneOverWide, ExactWide}

VARIABLES
    clock,        \* datetime.utcnow() / the Redis server clock, in ticks
    users,        \* table users: set of [id, email, password_hash]
    posts,        \* table posts: set of [id, text, user_id]
    nextUserId,   \* autoincrement of users.id
    nextPostId,   \* autoincrement of posts.id
    cache,        \* Redis: user id -> [value, expires]
    regToken,     \* email -> token returned by register (clients keep it)
    loginToken,   \* email -> token returned by the latest login
    regTime,      \* email -> tick at which register issued its token
    inflight,     \* get-posts requests suspended at an await
    created,      \* history: post id -> owner of every post ever created
    removedBy,    \* history: post id -> user id whose delete-post removed it
    workers,      \* SpecConc: request handlers running step by step
    last          \* the latest response sent

vars == <<clock, users, posts, nextUserId, nextPostId, cache, regToken, loginToken,
          regTime, inflight, created, removedBy, workers, last>>

UserIds == 1..Cardinality(Emails)
PostIds == 1..MaxPosts

\* ------------------------------------------------------------ passwords
\* pwd_context.hash: bcrypt keeps the salt next to the digest of (salt, password).
HashPassword(password, salt) == [salt |-> salt, digest |-> <<salt, password>>]

\* pwd_context.verify: re-derives the digest with the salt stored in the hash.
VerifyPassword(plain_password, hashed_password) ==
    hashed_password.digest = <<hashed_password.salt, plain_password>>

\* ---------------------------------------------------------------- tokens
SECRET_KEY == "SECRET_KEY"
OtherKey == "other-key"
NoToken == [sub |-> "", id |-> 0, exp |-> 0, key |-> "none"]

\* timegm(exp.utctimetuple()): a datetime claim is encoded as whole seconds.
\* (variant: exp kept at the clock's resolution)
JwtEncodeKeepingTicks(sub, id, exp, key) == [sub |-> sub, id |-> id, exp |-> exp, key |-> key]
JwtEncode(sub, id, exp, key) ==
    [sub |-> sub, id |-> id, exp |-> exp \div TicksPerSecond, key |-> key]

CreateAccessToken(email, id, expires_delta, now) ==
    JwtEncode(email, id, now + expires_delta, SECRET_KEY)

\* jwt.decode: the signature must be made with `key`; the token is expired
\* when exp < now, both in whole seconds.
\* (variant: expired already in the second of exp)
JwtExpiredAtExp(token, now) == token.exp <= now \div TicksPerSecond
JwtExpired(token, now) == token.exp < now \div TicksPerSecond

JwtDecodes(token, key, now) == token.key = key /\ ~JwtExpired(token, now)

Unauthorized == [ok |-> FALSE, email |-> "", id |-> 0]
GetCurrentUser(token, now) ==
    IF token = NoToken THEN Unauthorized                \* oauth2_bearer: no header
    ELSE IF ~JwtDecodes(token, SECRET_KEY, now) THEN Unauthorized   \* JWTError
    ELSE [ok |-> TRUE, email |-> token.sub, id |-> token.id]

\* Tokens a client can present: none, the ones it was issued, or one signed
\* with another key for any user id.
ForgedTokens == {[sub |-> e, id |-> i, exp |-> 2 * TokenLifeTicks, key |-> OtherKey] :
                    e \in {"a@x.com"}, i \in {1}}
IssuedTokens == ({regToken[e] : e \in Emails} \cup {loginToken[e] : e \in Emails}) \ {NoToken}
PresentableTokens == {NoToken} \cup ForgedTokens \cup IssuedTokens

\* ----------------------------------------------------------------- store
EmailExists(us, email) == \E u \in us : u.email = email
UserByEmail(us, email) == CHOOSE u \in us : u.email = email

\* users.email is declared unique=True: the INSERT of a second row with the
\* same email raises IntegrityError at commit and stores nothing.
\* (variant: no unique constraint)
InsertUserNoConstraint(us, user) == [ok |-> TRUE, users |-> us \cup {user}]
InsertUser(us, user) ==
    IF EmailExists(us, user.email) THEN [ok |-> FALSE, users |-> us]
    ELSE [ok |-> TRUE, users |-> us \cup {user}]

AuthenticateUser(us, email, password) ==
    IF ~EmailExists(us, email) THEN FALSE
    ELSE VerifyPassword(password, UserByEmail(us, email).password_hash)

QueryAllPosts(ps) == ps
QueryPostsByUser(ps, user_id) == {p \in ps : p.user_id = user_id}

QueryPostById(ps, post_id) == {p \in ps : p.id = post_id}
QueryPostByIdAndUser(ps, post_id, user_id) ==
    {p \in ps : p.id = post_id /\ p.user_id = user_id}

\* ----------------------------------------------------------------- cache
NoEntry == [value |-> {}, expires |-> 0]
RedisLive(entry, now) == now < entry.expires
PostsData(ps) == {[id |-> p.id, name |-> p.text] : p \in ps}

\* -------------------------------------------------------------- responses
NoResponse == [op |-> "none", status |-> 0, caller |-> 0, email |-> "", password |-> "", post |-> 0,
               text |-> Text(0, 0), token |-> NoToken, body |-> {}, at |-> 0]
Response(op, status) == [NoResponse EXCEPT !.op = op, !.status = status]

IdleRequest == [pc |-> "idle", user |-> 0, posts_data |-> {}]
IdleWorker == [pc |-> "idle", op |-> "none", email |-> "", password |-> "", caller |-> 0,
               post |-> 0, found |-> FALSE, existed |-> FALSE, status |-> 0]

Init ==
    /\ clock = 0
    /\ users = {}
    /\ posts = {}
    /\ nextUserId = 1
    /\ nextPostId = 1
    /\ cache = [u \in UserIds |-> NoEntry]
    /\ regToken = [e \in Emails |-> NoToken]
    /\ loginToken = [e \in Emails |-> NoToken]
    /\ regTime = [e \in Emails |-> 0]
    /\ inflight = [s \in Requests |-> IdleRequest]
    /\ created = {}
    /\ removedBy = {}
    /\ workers = [w \in 1..NumWorkers |-> IdleWorker]
    /\ last = NoResponse

\* ------------------------------------------------------- users_endpoints
\* (variant: the stored record is rewritten before the 400)
RegisterUserUpsert(email, password, salt) ==
    /\ IF EmailExists(users, email)
       THEN /\ last' = [Response("register", 400) EXCEPT !.email = email, !.password = password]
            /\ users' = (users \ {UserByEmail(users, email)}) \cup
                   {[UserByEmail(users, email) EXCEPT
                        !.password_hash = HashPassword(password, salt)]}
            /\ UNCHANGED <<nextUserId, regToken, regTime>>
       ELSE LET user == [id |-> nextUserId, email |-> email,
                         password_hash |-> HashPassword(password, salt)]
                token == CreateAccessToken(user.email, user.id, TokenLifeTicks, clock)
            IN  /\ users' = users \cup {user}
                /\ nextUserId' = nextUserId + 1
                /\ regToken' = [regToken EXCEPT ![email] = token]
                /\ regTime' = [regTime EXCEPT ![email] = clock]
                /\ last' = [Response("register", 201) EXCEPT
                               !.email = email, !.password = password, !.caller = user.id,
                               !.token = token, !.at = clock]
    /\ UNCHANGED <<clock, posts, nextPostId, cache, loginToken, inflight, created,
                   removedBy, workers>>

RegisterUser(email, password, salt) ==
    /\ IF EmailExists(users, email)
       THEN /\ last' = [Response("register", 400) EXCEPT !.email = email, !.password = password]
            /\ UNCHANGED <<users, nextUserId, regToken, regTime>>
       ELSE LET user == [id |-> nextUserId, email |-> email,
                         password_hash |-> HashPassword(password, salt)]
                token == CreateAccessToken(user.email, user.id, TokenLifeTicks, clock)
            IN  /\ users' = InsertUser(users, user).users
                /\ nextUserId' = nextUserId + 1
                /\ regToken' = [regToken EXCEPT ![email] = token]
                /\ regTime' = [regTime EXCEPT ![email] = clock]
                /\ last' = [Response("register", 201) EXCEPT
                               !.email = email, !.password = password, !.caller = user.id,
                               !.token = token, !.at = clock]
    /\ UNCHANGED <<clock, posts, nextPostId, cache, loginToken, inflight, created,
                   removedBy, workers>>

LoginUser(email, password) ==
    /\ IF ~AuthenticateUser(users, email, password)
       THEN /\ last' = [Response("login", 404) EXCEPT !.email = email, !.password = password]
            /\ UNCHANGED loginToken
       ELSE LET user == UserByEmail(users, email)
                token == CreateAccessToken(user.email, user.id, TokenLifeTicks, clock)
            IN  /\ loginToken' = [loginToken EXCEPT ![email] = token]
                /\ last' = [Response("login", 200) EXCEPT
                               !.email = email, !.password = password, !.caller = user.id,
                               !.token = token, !.at = clock]
    /\ UNCHANGED <<clock, users, posts, nextUserId, nextPostId, cache, regToken, regTime,
                   inflight, created, removedBy, workers>>

\* ------------------------------------------------------- posts_endpoints
\* add_post after authentication: the request body is validated against
\* PostCreateSchema (422), then the handler checks the UTF-8 size (413), then
\* the INSERT is committed.  `strict` is whether the database enforces the
\* declared width of posts.text (DataError at commit) or ignores it.
AddPostStatus(text, strict) ==
    IF CharLen(text) > SCHEMA_MAX_LENGTH THEN 422
    ELSE IF Utf8Len(text) > MAX_SIZE THEN 413
    ELSE IF strict /\ CharLen(text) > COLUMN_LENGTH THEN 500
    ELSE 200

\* (variant: the INSERT is committed before the size check)
AddPostCommitsFirst(token, text, strict) ==
    LET user == GetCurrentUser(token, clock)
        status == IF ~user.ok THEN 401 ELSE AddPostStatus(text, strict)
        post == [id |-> nextPostId, text |-> text, user_id |-> user.id]
    IN  /\ IF user.ok /\ status \in {200, 413}
           THEN /\ nextPostId <= MaxPosts
                /\ posts' = posts \cup {post}
                /\ nextPostId' = nextPostId + 1
                /\ created' = created \cup {[id |-> post.id, user_id |-> post.user_id]}
                /\ last' = [Response("add_post", status) EXCEPT
                               !.caller = user.id, !.text = text, !.post = post.id]
           ELSE /\ last' = [Response("add_post", status) EXCEPT
                               !.caller = user.id, !.text = text]
                /\ UNCHANGED <<posts, nextPostId, created>>
        /\ UNCHANGED <<clock, users, nextUserId, cache, regToken, loginToken, regTime,
                       inflight, removedBy, workers>>

AddPost(token, text, strict) ==
    LET user == GetCurrentUser(token, clock)
        status == IF ~user.ok THEN 401 ELSE AddPostStatus(text, strict)
    IN  /\ IF status = 200
           THEN LET post == [id |-> nextPostId, text |-> text, user_id |-> user.id]
                IN  /\ nextPostId <= MaxPosts
                    /\ posts' = posts \cup {post}
                    /\ nextPostId' = nextPostId + 1
                    /\ created' = created \cup {[id |-> post.id, user_id |-> post.user_id]}
                    /\ last' = [Response("add_post", 200) EXCEPT
                                   !.caller = user.id, !.text = text, !.post = post.id]
           ELSE /\ last' = [Response("add_post", status) EXCEPT
                               !.caller = user.id, !.text = text]
                /\ UNCHANGED <<posts, nextPostId, created>>
        /\ UNCHANGED <<clock, users, nextUserId, cache, regToken, loginToken, regTime,
                       inflight, removedBy, workers>>

\* get_posts, first segment: authentication, then `await redis_client.get`.
GetPostsStart(slot, token) ==
    LET user == GetCurrentUser(token, clock)
    IN  /\ inflight[slot].pc = "idle"
        /\ IF ~user.ok
           THEN /\ last' = Response("get_posts", 401)
                /\ UNCHANGED inflight
           ELSE /\ inflight' = [inflight EXCEPT ![slot] =
                                   [pc |-> "get", user |-> user.id, posts_data |-> {}]]
                /\ UNCHANGED last
        /\ UNCHANGED <<clock, users, posts, nextUserId, nextPostId, cache, regToken,
                       loginToken, regTime, created, removedBy, workers>>

\* The value get_posts returns: the local `posts` (the decoded cache value, or
\* all posts) is overwritten by the query filtered on the caller's id.
\* (variant: the first value of `posts` is returned)
GetPostsReturnsLocal(local_posts, ps, user_id) == local_posts
GetPostsResult(local_posts, ps, user_id) == QueryPostsByUser(ps, user_id)

\* The value written to the cache on a miss.
CacheValueOnMiss(ps) == PostsData(QueryAllPosts(ps))

\* Whether the GET of the caller's key is a hit.
\* (variant: the cached value is ignored)
CacheAlwaysMiss(entry, now) == FALSE
CacheHit(entry, now) == RedisLive(entry, now)

\* get_posts, second segment: the reply of GET.  On a hit the handler runs to
\* its end; on a miss it queries all posts and awaits `redis_client.set`.
GetPostsCacheGet(slot) ==
    LET req == inflight[slot]
        cached_data == cache[req.user]
    IN  /\ req.pc = "get"
        /\ IF CacheHit(cached_data, clock)
           THEN /\ inflight' = [inflight EXCEPT ![slot] = IdleRequest]
                /\ last' = [Response("get_posts", 200) EXCEPT
                               !.caller = req.user,
                               !.body = GetPostsResult(cached_data.value, posts, req.user)]
           ELSE /\ inflight' = [inflight EXCEPT ![slot] =
                                   [pc |-> "set", user |-> req.user,
                                    posts_data |-> CacheValueOnMiss(posts)]]
                /\ UNCHANGED last
        /\ UNCHANGED <<clock, users, posts, nextUserId, nextPostId, cache, regToken,
                       loginToken, regTime, created, removedBy, workers>>

\* get_posts, third segment: SET with ex=5 is done, the handler queries the
\* caller's posts and returns them.
CacheExpiry(now) == now + CacheTtlTicks

GetPostsCacheSet(slot) ==
    LET req == inflight[slot]
    IN  /\ req.pc = "set"
        /\ cache' = [cache EXCEPT ![req.user] =
                        [value |-> req.posts_data, expires |-> CacheExpiry(clock)]]
        /\ inflight' = [inflight EXCEPT ![slot] = IdleRequest]
        /\ last' = [Response("get_posts", 200) EXCEPT
                       !.caller = req.user,
                       !.body = GetPostsResult(QueryAllPosts(posts), posts, req.user)]
        /\ UNCHANGED <<clock, users, posts, nextUserId, nextPostId, regToken, loginToken,
                       regTime, created, removedBy, workers>>

\* The rows delete_post's query matches.
\* (variant: the query does not filter on the owner)
DeleteQueryAnyOwner(ps, post_id, user_id) == {p \in ps : p.id = post_id}
DeleteQuery(ps, post_id, user_id) == QueryPostByIdAndUser(ps, post_id, user_id)

DeletePost(token, post_id) ==
    LET user == GetCurrentUser(token, clock)
        found == DeleteQuery(posts, post_id, user.id)
    IN  /\ IF ~user.ok
           THEN /\ last' = [Response("delete_post", 401) EXCEPT !.post = post_id]
                /\ UNCHANGED <<posts, removedBy>>
           ELSE IF found = {}
           THEN /\ last' = [Response("delete_post", 404) EXCEPT
                               !.caller = user.id, !.post = post_id]
                /\ UNCHANGED <<posts, removedBy>>
           ELSE /\ posts' = posts \ found
                /\ removedBy' = removedBy \cup {[id |-> post_id, by |-> user.id]}
                /\ last' = [Response("delete_post", 204) EXCEPT
                               !.caller = user.id, !.post = post_id]
        /\ UNCHANGED <<clock, users, nextUserId, nextPostId, cache, regToken, loginToken,
                       regTime, inflight, created, workers>>

\* ------------------------------------------------------------------ time
\* Time passes up to one of the instants explored.
Wait(t) ==
    /\ t > clock
    /\ clock' = t
    /\ UNCHANGED <<users, posts, nextUserId, nextPostId, cache, regToken, loginToken,
                   regTime, inflight, created, removedBy, workers, last>>

\* The response is sent to the client; the next handler segment then runs.
SendResponse ==
    /\ last # NoResponse
    /\ last' = NoResponse
    /\ UNCHANGED <<clock, users, posts, nextUserId, nextPostId, cache, regToken,
                   loginToken, regTime, inflight, created, removedBy, workers>>

\* The dependency get_current_user resolved on its own for a presented token.
Authenticate(token) ==
    LET user == GetCurrentUser(token, clock)
    IN  /\ last' = [Response("get_current_user", IF user.ok THEN 200 ELSE 401) EXCEPT
                       !.caller = user.id, !.email = user.email, !.token = token, !.at = clock]
        /\ UNCHANGED <<clock, users, posts, nextUserId, nextPostId, cache, regToken,
                       loginToken, regTime, inflight, created, removedBy, workers>>

\* ------------------------------------------- handlers running concurrently
\* SpecConc: several server processes share the database; each runs its
\* handler step by step (query, then commit).  posts.id and users.id are drawn
\* from the table's sequence at the INSERT.
StartWorker(w, op) == [IdleWorker EXCEPT !.pc = "start", !.op = op]

\* register_user: the existence check.
WRegisterCheck(w, email, password) ==
    /\ workers[w].pc \in {"idle", "done"}
    /\ workers' = [workers EXCEPT ![w] =
            [StartWorker(w, "register") EXCEPT
                !.email = email, !.password = password,
                !.pc = IF EmailExists(users, email) THEN "done" ELSE "commit",
                !.status = IF EmailExists(users, email) THEN 400 ELSE 0]]
    /\ UNCHANGED <<clock, users, posts, nextUserId, nextPostId, cache, regToken,
                   loginToken, regTime, inflight, created, removedBy, last>>

\* register_user: db.add, db.commit, then the token.
WRegisterCommit(w, salt) ==
    LET req == workers[w]
        user == [id |-> nextUserId, email |-> req.email,
                 password_hash |-> HashPassword(req.password, salt)]
        res == InsertUser(users, user)
    IN  /\ req.pc = "commit" /\ req.op = "register"
        /\ users' = res.users
        /\ IF res.ok
           THEN /\ nextUserId' = nextUserId + 1
                /\ regToken' = [regToken EXCEPT ![req.email] =
                                   CreateAccessToken(user.email, user.id, TokenLifeTicks, clock)]
                /\ regTime' = [regTime EXCEPT ![req.email] = clock]
                /\ workers' = [workers EXCEPT ![w].pc = "done", ![w].status = 201,
                                              ![w].caller = user.id]
           ELSE /\ workers' = [workers EXCEPT ![w].pc = "done", ![w].status = 500]
                /\ UNCHANGED <<nextUserId, regToken, regTime>>
        /\ UNCHANGED <<clock, posts, nextPostId, cache, loginToken, inflight, created,
                       removedBy, last>>

\* add_post: one INSERT and commit.
WAddPost(w, token, text) ==
    LET user == GetCurrentUser(token, clock)
        status == IF ~user.ok THEN 401 ELSE AddPostStatus(text, FALSE)
        post == [id |-> nextPostId, text |-> text, user_id |-> user.id]
    IN  /\ workers[w].pc \in {"idle", "done"}
        /\ status = 200
        /\ nextPostId <= MaxPosts
        /\ posts' = posts \cup {post}
        /\ nextPostId' = nextPostId + 1
        /\ created' = created \cup {[id |-> post.id, user_id |-> post.user_id]}
        /\ workers' = [workers EXCEPT ![w] =
                [StartWorker(w, "add_post") EXCEPT
                    !.pc = "done", !.caller = user.id, !.post = post.id, !.status = 200]]
        /\ UNCHANGED <<clock, users, nextUserId, cache, regToken, loginToken, regTime,
                       inflight, removedBy, last>>

\* delete_post: the request arrives and the caller is authenticated.
\* `existed` notes whether the post was in the store at that moment.
WDeleteStart(w, token, post_id) ==
    LET user == GetCurrentUser(token, clock)
    IN  /\ workers[w].pc \in {"idle", "done"}
        /\ user.ok
        /\ workers' = [workers EXCEPT ![w] =
                [StartWorker(w, "delete_post") EXCEPT
                    !.caller = user.id, !.post = post_id,
                    !.existed = (QueryPostById(posts, post_id) # {})]]
        /\ UNCHANGED <<clock, users, posts, nextUserId, nextPostId, cache, regToken,
                       loginToken, regTime, inflight, created, removedBy, last>>

\* delete_post: the query for the caller's post.
WDeleteQuery(w) ==
    LET req == workers[w]
        found == DeleteQuery(posts, req.post, req.caller)
    IN  /\ req.pc = "start" /\ req.op = "delete_post"
        /\ workers' = [workers EXCEPT
                    ![w].found = (found # {}),
                    ![w].pc = IF found = {} THEN "done" ELSE "commit",
                    ![w].status = IF found = {} THEN 404 ELSE 0]
        /\ UNCHANGED <<clock, users, posts, nextUserId, nextPostId, cache, regToken,
                       loginToken, regTime, inflight, created, removedBy, last>>

\* The status of db.delete(post); db.commit() given the number of rows the
\* DELETE matched: a DELETE by primary key that matches no row (the row was
\* deleted meanwhile) only emits a warning, and the handler returns 204.
\* (variant: a DELETE that matches no row answers 404)
DeleteCommitStatusChecked(rows_matched) == IF rows_matched = 0 THEN 404 ELSE 204
DeleteCommitStatus(rows_matched) == 204

WDeleteCommit(w) ==
    LET req == workers[w]
        rows == QueryPostById(posts, req.post)
    IN  /\ req.pc = "commit" /\ req.op = "delete_post"
        /\ posts' = posts \ rows
        /\ removedBy' = removedBy \cup {[id |-> r.id, by |-> req.caller] : r \in rows}
        /\ workers' = [workers EXCEPT ![w].pc = "done",
                                      ![w].status = DeleteCommitStatus(Cardinality(rows))]
        /\ UNCHANGED <<clock, users, nextUserId, nextPostId, cache, regToken, loginToken,
                       regTime, inflight, created, last>>

\* ---------------------------------------------------------- specifications
\* Spec: posts and the cache for two users; each handler runs between its awaits.
SpecInstants == {CacheTtlTicks}
SpecTexts == {Hello, OneOverWide}

Next ==
    \/ SendResponse
    \/ /\ last = NoResponse
       /\ \/ \E e \in Emails, s \in Salts : RegisterUser(e, "pw", s)
          \/ \E t \in PresentableTokens, x \in SpecTexts : AddPost(t, x, FALSE)
          \/ \E s \in Requests, t \in PresentableTokens : GetPostsStart(s, t)
          \/ \E s \in Requests : GetPostsCacheGet(s)
          \/ \E s \in Requests : GetPostsCacheSet(s)
          \/ \E t \in PresentableTokens, i \in PostIds : DeletePost(t, i)
          \/ \E t \in SpecInstants : Wait(t)

Spec == Init /\ [][Next]_vars

\* SpecErrors: every endpoint for one account, with tokens that expire.
OneEmail == {"a@x.com"}
ErrorInstants == {TokenLifeTicks + TicksPerSecond}

NextErrors ==
    \/ SendResponse
    \/ /\ last = NoResponse
       /\ \/ \E e \in OneEmail, s \in Salts : RegisterUser(e, "pw", s)
          \/ \E e \in OneEmail, p \in Passwords : LoginUser(e, p)
          \/ \E t \in PresentableTokens, x \in SpecTexts : AddPost(t, x, FALSE)
          \/ \E s \in Requests, t \in PresentableTokens : GetPostsStart(s, t)
          \/ \E s \in Requests : GetPostsCacheGet(s)
          \/ \E s \in Requests : GetPostsCacheSet(s)
          \/ \E t \in PresentableTokens, i \in PostIds : DeletePost(t, i)
          \/ \E t \in ErrorInstants : Wait(t)

SpecErrors == Init /\ [][NextErrors]_vars

\* SpecAuth: register, login and token validation over the instants around
\* the issue time and around the token lifetime.
AuthInstants == {d + k : d \in {0, TokenLifeTicks}, k \in 0..(TicksPerSecond + 1)}

NextAuth ==
    \/ SendResponse
    \/ /\ last = NoResponse
       /\ \/ \E e \in OneEmail, p \in Passwords, s \in Salts : RegisterUser(e, p, s)
          \/ \E e \in OneEmail, p \in Passwords : LoginUser(e, p)
          \/ \E t \in PresentableTokens : Authenticate(t)
          \/ \E t \in AuthInstants : Wait(t)

SpecAuth == Init /\ [][NextAuth]_vars

\* SpecAdd: add-post over texts around the size limits.
NextAdd ==
    \/ SendResponse
    \/ /\ last = NoResponse
       /\ \/ \E e \in OneEmail, s \in Salts : RegisterUser(e, "pw", s)
          \/ \E t \in PresentableTokens, x \in TextInputs, strict \in BOOLEAN :
                AddPost(t, x, strict)

SpecAdd == Init /\ [][NextAdd]_vars

\* SpecConc: register, add-post and delete-post handlers interleaved.
NextConc ==
    \/ \E w \in 1..NumWorkers, e \in OneEmail : WRegisterCheck(w, e, "pw")
    \/ \E w \in 1..NumWorkers, s \in Salts : WRegisterCommit(w, s)
    \/ \E w \in 1..NumWorkers, t \in IssuedTokens : WAddPost(w, t, Hello)
    \/ \E w \in 1..NumWorkers, t \in IssuedTokens, i \in PostIds : WDeleteStart(w, t, i)
    \/ \E w \in 1..NumWorkers : WDeleteQuery(w)
    \/ \E w \in 1..NumWorkers : WDeleteCommit(w)

SpecConc == Init /\ [][NextConc]_vars

\* ------------------------------------------------------------------ claims
PostIdsIn(ps) == {p.id : p \in ps}
RemovedIds == {r.id : r \in removedBy}
Authenticated(resp) == resp.caller # 0

C2_DeleteOnlyByOwner ==
    /\ \A r \in removedBy : [id |-> r.id, user_id |-> r.by] \in created
    /\ \A c \in created : c.id \notin PostIdsIn(posts) => c.id \in RemovedIds
    /\ last.op = "delete_post" =>
        /\ last.status \in {204, 401, 404}
        /\ last.status = 204 =>
              /\ [id |-> last.post, user_id |-> last.caller] \in created
              /\ last.post \notin PostIdsIn(posts)
        /\ (Authenticated(last) /\ \E p \in posts : p.id = last.post /\ p.user_id # last.caller)
              => last.status = 404
        /\ (Authenticated(last) /\ last.post \notin {c.id : c \in created})
              => last.status = 404

\* C2 witness: 404 to an authenticated non-owner while the post is stored.
C2_Witness ==
    /\ last.op = "delete_post" /\ last.status = 404 /\ Authenticated(last)
    /\ \E p \in posts : p.id = last.post /\ p.user_id # last.caller

\* C3 (original statement): a token issued by register at time t is accepted
\* with its identity at every time before t + 20 minutes and rejected at every
\* time after t + 20 minutes.
C3_RejectedRightAfterLifetime ==
    \A e \in Emails :
        (last.op = "get_current_user" /\ regToken[e] # NoToken /\ last.token = regToken[e]) =>
            /\ last.at < regTime[e] + TOKEN_MINUTES * 60 * TicksPerSecond =>
                  last.status = 200 /\ last.email = e /\ last.caller = UserByEmail(users, e).id
            /\ last.at > regTime[e] + TOKEN_MINUTES * 60 * TicksPerSecond =>
                  last.status = 401

\* C3 (amended): the token is accepted, with its identity, exactly while the
\* clock's whole second is at most the whole second of t + 20 minutes: at every
\* time before t + 20 minutes, and rejected from t + 20 minutes + 1 second on;
\* the expiration of the issued token stays the one fixed at its creation.
C3_AcceptedUntilExpSecond ==
    \A e \in Emails :
        /\ regToken[e] # NoToken =>
              regToken[e].exp = (regTime[e] + TOKEN_MINUTES * 60 * TicksPerSecond) \div TicksPerSecond
        /\ (last.op = "get_current_user" /\ regToken[e] # NoToken /\ last.token = regToken[e]) =>
            /\ last.status \in {200, 401}
            /\ last.status = 200 <=>
                  last.at \div TicksPerSecond
                      <= (regTime[e] + TOKEN_MINUTES * 60 * TicksPerSecond) \div TicksPerSecond
            /\ last.at < regTime[e] + TOKEN_MINUTES * 60 * TicksPerSecond => last.status = 200
            /\ last.at >= regTime[e] + (TOKEN_MINUTES * 60 + 1) * TicksPerSecond =>
                  last.status = 401
            /\ last.status = 200 =>
                  last.email = e /\ last.caller = UserByEmail(users, e).id

\* C3 witness: a token of register rejected after its lifetime.
C3_Witness ==
    \E e \in Emails :
        /\ last.op = "get_current_user" /\ last.status = 401
        /\ regToken[e] # NoToken /\ last.token = regToken[e]
        /\ last.at > regTime[e] + TOKEN_MINUTES * 60 * TicksPerSecond

\* C4 (original statement): add-post by an authenticated user answers 200 for
\* every text of at most 1,048,576 UTF-8 bytes and 413 for every longer text.
C4_SizeLimitDecidesOutcome ==
    (last.op = "add_post" /\ Authenticated(last)) =>
        /\ Utf8Len(last.text) <= 1048576 => last.status = 200
        /\ Utf8Len(last.text) > 1048576 => last.status = 413

\* C5: register of a stored email answers 400, creates no user, issues no
\* token and leaves the stored record as it was; register of an email not yet
\* stored answers 201 with a token that authenticates the new user.
C5_RegisterConflict ==
    [][ (last'.op = "register" /\ last' # last) =>
            IF EmailExists(users, last'.email)
            THEN /\ last'.status = 400
                 /\ users' = users
                 /\ last'.token = NoToken
                 /\ regToken' = regToken /\ loginToken' = loginToken
            ELSE /\ last'.status = 201
                 /\ \E u \in users' :
                       /\ users' = users \cup {u}
                       /\ u.email = last'.email
                       /\ VerifyPassword(last'.password, u.password_hash)
                       /\ GetCurrentUser(last'.token, clock') =
                              [ok |-> TRUE, email |-> u.email, id |-> u.id]
    ]_vars

\* C5 witness: a 400 for a stored email, registered with another password.
C5_Witness ==
    /\ last.op = "register" /\ last.status = 400
    /\ \E u \in users : u.email = last.email /\ ~VerifyPassword(last.password, u.password_hash)

\* C6 (original statement): of two delete-post requests of the owner for the
\* same post, both received while the post is stored, one ends with 204 and the
\* other with 404.
C6_LoserGetsNotFound ==
    \A w1, w2 \in 1..NumWorkers :
        (/\ w1 # w2
         /\ workers[w1].op = "delete_post" /\ workers[w2].op = "delete_post"
         /\ workers[w1].pc = "done" /\ workers[w2].pc = "done"
         /\ workers[w1].post = workers[w2].post
         /\ workers[w1].existed /\ workers[w2].existed
         /\ [id |-> workers[w1].post, user_id |-> workers[w1].caller] \in created
         /\ [id |-> workers[w2].post, user_id |-> workers[w2].caller] \in created)
        => {workers[w1].status, workers[w2].status} = {204, 404}

\* C6 (amended): each such request ends with 204 or 404 and the post is absent
\* afterwards; it ends with 404 exactly when its query ran after a commit that
\* removed the post, and with 204 when its query still found the post, so two
\* requests whose queries both precede the commits both end with 204.
C6_ConcurrentDeletes ==
    \A w \in 1..NumWorkers :
        (/\ workers[w].op = "delete_post" /\ workers[w].pc = "done"
         /\ workers[w].existed
         /\ [id |-> workers[w].post, user_id |-> workers[w].caller] \in created)
        => /\ workers[w].status \in {204, 404}
           /\ workers[w].status = 204 <=> workers[w].found
           /\ workers[w].status = 404 =>
                 [id |-> workers[w].post, by |-> workers[w].caller] \in removedBy
           /\ workers[w].post \notin PostIdsIn(posts)

\* C6 witness: two requests for the same post, both ended with 204.
C6_Witness ==
    \E w1, w2 \in 1..NumWorkers :
        /\ w1 # w2
        /\ workers[w1].op = "delete_post" /\ workers[w2].op = "delete_post"
        /\ workers[w1].pc = "done" /\ workers[w2].pc = "done"
        /\ workers[w1].post = workers[w2].post
        /\ workers[w1].status = 204 /\ workers[w2].status = 204

\* C7: a request that ends in an error leaves the users and the posts as they
\* were; the store changes only in a request that succeeds.
C7_ErrorsChangeNothing ==
    [][ /\ (last' # last /\ last'.status >= 400) => (users' = users /\ posts' = posts)
        /\ (users' # users \/ posts' # posts) => last'.status \in {200, 201, 204}
    ]_vars

\* C7 witness: a 413 while a user and a post are stored.
C7_Witness ==
    /\ last.op = "add_post" /\ last.status = 413
    /\ users # {} /\ posts # {}

\* C8 (original statement): a successful login after register returns a token
\* different from the one register returned.
C8_LoginTokenDiffers ==
    (last.op = "login" /\ last.status = 200 /\ regToken[last.email] # NoToken) =>
        last.token # regToken[last.email]

\* C8 (amended): login with the registered credentials answers 200, and its
\* token differs from register's exactly when the two calls fall in different
\* whole seconds of the clock; within the same second the two tokens are equal.
C8_LoginTokenDiffersAcrossSeconds ==
    (last.op = "login" /\ regToken[last.email] # NoToken) =>
        /\ last.status = 200 <=>
              VerifyPassword(last.password, UserByEmail(users, last.email).password_hash)
        /\ last.status = 200 =>
              (last.token # regToken[last.email] <=>
                  last.at \div TicksPerSecond # regTime[last.email] \div TicksPerSecond)

\* C8 witness: a login at a later instant of the second of register, with the
\* same token.
C8_Witness ==
    /\ last.op = "login" /\ last.status = 200
    /\ last.at # regTime[last.email]
    /\ last.token = regToken[last.email]

\* C9: no two stored users have the same email, also when register requests
\* for one email interleave between the existence check and the commit.
C9_EmailUnique ==
    \A u1, u2 \in users : u1.email = u2.email => u1 = u2

\* C9 witness: a register that passed the existence check and failed at the
\* commit, the email being stored by another request meanwhile.
C9_Witness ==
    \E w \in 1..NumWorkers :
        /\ workers[w].op = "register" /\ workers[w].pc = "done" /\ workers[w].status = 500
        /\ EmailExists(users, workers[w].email)

====
